---- MODULE Spec2Model ----
(***************************************************************************)
(* Model of nfweno.c (PyWENO): construction of WENO reconstruction         *)
(* polynomials, reconstruction coefficients c[i,l,r,j] and smoothness      *)
(* coefficients beta[i,r,m,n] on non-uniform grids.                        *)
(*                                                                         *)
(* dtype (double) values are modelled as exact rationals <<num, den>> in   *)
(* lowest terms with den > 0; rounding of IEEE arithmetic is not modelled. *)
(* Grid coordinates are integers, for which the subtractions of the code   *)
(* are exact in double precision as well.                                  *)
(***************************************************************************)
EXTENDS Integers, Sequences, FiniteSets, TLC

(***************************************************************************)
(* Bounds of the model.                                                    *)
(***************************************************************************)
\* largest order k of a request
MaxK == 3
\* largest number nx of cell boundaries of a request
MaxNx == 7
\* largest rigid translation of a grid
MaxT == 1

(***************************************************************************)
(* dtype arithmetic: exact rationals.                                      *)
(***************************************************************************)
Abs(a) == IF a < 0 THEN -a ELSE a

RECURSIVE GCD(_, _)
GCD(a, b) == IF b = 0 THEN a ELSE GCD(b, a % b)

\* the rational n/d (d # 0) in lowest terms with a positive denominator
Rat(n, d) ==
    LET g == GCD(Abs(n), Abs(d))
        s == IF d < 0 THEN -1 ELSE 1
    IN  <<(s * n) \div g, (s * d) \div g>>

Zero == <<0, 1>>
One == <<1, 1>>
RInt(n) == <<n, 1>>

RMul(a, b) ==
    LET g1 == GCD(Abs(a[1]), b[2])
        g2 == GCD(Abs(b[1]), a[2])
    IN  <<(a[1] \div g1) * (b[1] \div g2), (a[2] \div g2) * (b[2] \div g1)>>

RAdd(a, b) ==
    LET g == GCD(a[2], b[2])
    IN  Rat(a[1] * (b[2] \div g) + b[1] * (a[2] \div g), (a[2] \div g) * b[2])

RNeg(a) == <<-a[1], a[2]>>
RSub(a, b) == RAdd(a, RNeg(b))
\* 1.0 / a, for a # 0
RInv(a) == IF a[1] < 0 THEN <<-a[2], -a[1]>> ELSE <<a[2], a[1]>>
RGeq0(a) == a[1] >= 0

\* pow(a, e) for an integer exponent e >= 0
RECURSIVE pow(_, _)
pow(a, e) == IF e = 0 THEN One ELSE RMul(a, pow(a, e - 1))

(***************************************************************************)
(* The polynomial value type: n is the degree, p[z] the coefficient of x^z *)
(***************************************************************************)
poly_zero(n) == [n |-> n, p |-> [z \in 0..n |-> Zero]]

poly_one(n) == [n |-> n, p |-> [z \in 0..n |-> IF z = 0 THEN One ELSE Zero]]

\* p(x) <- (x + a) p(x); the loop runs z = n .. 1, so p[z-1] is still the old
\* coefficient when p[z] is assigned, and the old p[n] * x^(n+1) is dropped
inplace_poly_mult_xpa(p1, a) ==
    [p1 EXCEPT !.p = [z \in 0..p1.n |->
        IF z = 0 THEN RMul(a, p1.p[0])
        ELSE RAdd(p1.p[z - 1], RMul(a, p1.p[z]))]]

inplace_poly_add(p1, p2) ==
    [p1 EXCEPT !.p = [z \in 0..p1.n |-> RAdd(p1.p[z], p2.p[z])]]

inplace_poly_scale(p1, a) ==
    [p1 EXCEPT !.p = [z \in 0..p1.n |-> RMul(p1.p[z], a)]]

\* Horner evaluation
RECURSIVE Horner(_, _, _)
Horner(p1, x, z) ==
    IF z = p1.n THEN p1.p[z] ELSE RAdd(p1.p[z], RMul(x, Horner(p1, x, z + 1)))

poly_eval(p1, x) == Horner(p1, x, 0)

\* derivative of order 1: degree n - 1, clamped at 0
poly_diff1(p1) ==
    IF p1.n = 0 THEN poly_zero(0)
    ELSE [n |-> p1.n - 1,
          p |-> [z \in 0..(p1.n - 1) |-> RMul(RInt(z + 1), p1.p[z + 1])]]

RECURSIVE poly_diff(_, _)
poly_diff(p1, order) ==
    IF order = 0 THEN p1 ELSE poly_diff(poly_diff1(p1), order - 1)

RECURSIVE ConvSum(_, _, _, _)
ConvSum(p1, p2, z, a) ==
    IF a > p1.n \/ a > z THEN Zero
    ELSE RAdd(IF z - a <= p2.n THEN RMul(p1.p[a], p2.p[z - a]) ELSE Zero,
              ConvSum(p1, p2, z, a + 1))

\* full product, degree deg(p1) + deg(p2)
poly_mult(p1, p2) ==
    [n |-> p1.n + p2.n, p |-> [z \in 0..(p1.n + p2.n) |-> ConvSum(p1, p2, z, 0)]]

RECURSIVE IntSum(_, _, _, _)
IntSum(p1, a, b, z) ==
    IF z > p1.n THEN Zero
    ELSE RAdd(RMul(RMul(p1.p[z], <<1, z + 1>>),
                   RSub(pow(b, z + 1), pow(a, z + 1))),
              IntSum(p1, a, b, z + 1))

\* definite integral of p1 over [a, b] from the closed-form antiderivative
poly_int(p1, a, b) == IntSum(p1, a, b, 0)

(***************************************************************************)
(* weno_recon_polys: the reconstruction polynomial of (i, r, j).           *)
(* xl is the local window xlocal[0 .. 2k-1] of the current cell.           *)
(***************************************************************************)
\* number of entries of xlocal
XlocalSize(k) == 2 * k

\* number of entries of xlocal assigned for each cell
XlocalFill(k) == 2 * k

\* mutant: the window is not centred at the left edge of the cell
XlocalEntry_Uncentred(x, ix, il, j) == RInt(x[ix - il + j])

\* xlocal[j] = w.x[i-il+j] - w.x[i]
XlocalEntry(x, ix, il, j) == RInt(x[ix - il + j] - x[ix])

\* mutant: only the factor l is left out
SkipN_OnlyL(n, l, m) == n = l

\* the factor n is left out of the product prd_n of (l, m)
SkipN(n, l, m) == (n = l) \/ (n = m)

\* the loop over n: q.q is prd_n, q.nmul the number of executions of
\* inplace_poly_mult_xpa, q.lost whether one of them dropped a nonzero
\* coefficient (the coefficient of x^(k-1) before the multiplication)
RECURSIVE prd_n_loop(_, _, _, _, _, _, _)
prd_n_loop(xl, k, r, l, m, n, q) ==
    IF n > k THEN q
    ELSE prd_n_loop(xl, k, r, l, m, n + 1,
            IF SkipN(n, l, m) THEN q
            ELSE [q    |-> inplace_poly_mult_xpa(q.q, RNeg(xl[(k - 1) - r + n])),
                  nmul |-> q.nmul + 1,
                  lost |-> q.lost \/ (q.q.p[q.q.n] # Zero)])

prd_n(xl, k, r, l, m) ==
    prd_n_loop(xl, k, r, l, m, 0, [q |-> poly_one(k - 1), nmul |-> 0, lost |-> FALSE])

\* the loop over m: sum of the products prd_n over m # l
RECURSIVE sum_m_loop(_, _, _, _, _, _)
sum_m_loop(xl, k, r, l, m, s) ==
    IF m > k THEN s
    ELSE sum_m_loop(xl, k, r, l, m + 1,
            IF m = l THEN s ELSE inplace_poly_add(s, prd_n(xl, k, r, l, m).q))

\* the loop over m: a = product of (xlocal[il-r+l] - xlocal[il-r+m]) over m # l
RECURSIVE a_loop(_, _, _, _, _, _)
a_loop(xl, k, r, l, m, a) ==
    IF m > k THEN a
    ELSE a_loop(xl, k, r, l, m + 1,
            IF m = l THEN a
            ELSE RMul(a, RSub(xl[(k - 1) - r + l], xl[(k - 1) - r + m])))

\* mutant: sum_m is scaled by a, not by its reciprocal
ScaledSumM_NoReciprocal(xl, k, r, l) ==
    inplace_poly_scale(sum_m_loop(xl, k, r, l, 0, poly_zero(k - 1)),
                       a_loop(xl, k, r, l, 0, One))

\* sum_m after inplace_poly_scale(sum_m, 1.0/a): the term of l
ScaledSumM(xl, k, r, l) ==
    inplace_poly_scale(sum_m_loop(xl, k, r, l, 0, poly_zero(k - 1)),
                       RInv(a_loop(xl, k, r, l, 0, One)))

\* the loop over l = j+1 .. k
RECURSIVE l_loop(_, _, _, _, _)
l_loop(xl, k, r, l, c) ==
    IF l > k THEN c
    ELSE l_loop(xl, k, r, l + 1, inplace_poly_add(c, ScaledSumM(xl, k, r, l)))

c_irj_poly(xl, k, r, j) == l_loop(xl, k, r, j + 1, poly_zero(k - 1))

\* index of (i, r, j) in the polynomial map
Irj(k, i, r, j) == i * k * k + r * k + j

\* the cells i of the loops  for (i = k-1; i < nc-(k-1); i++)
FirstCell(k) == k - 1

\* mutant: the loop runs to the last cell of the grid
LastCellBound_NC(k, nc) == nc

LastCellBound(k, nc) == nc - (k - 1)

(***************************************************************************)
(* weno_recon_coefs and weno_smoothness_coefs: the value of one entry.     *)
(***************************************************************************)
\* mutant: the factor 0.5 is missing
XiPhys_NoHalf(xin, dx) == RMul(RAdd(One, xin), dx)

\* xi = 0.5 * (1.0 + w.xi[n]) * (w.x[i+1] - w.x[i])
XiPhys(xin, dx) == RMul(RMul(<<1, 2>>, RAdd(One, xin)), dx)

\* strided offset of an index tuple <<a, b, c, d>>
Offset(str, a, b, c, d) == str[1] * a + str[2] * b + str[3] * c + str[4] * d

\* mutant: the mirror term of an off-diagonal entry is not counted
Multi_One(m, n) == 1

\* multi = m == n ? 1 : 2
Multi(m, n) == IF m = n THEN 1 ELSE 2

\* mutant: the bounds of the integral are exchanged
L2Term_Reversed(multi, dx, d, pm, pn) ==
    RMul(RMul(RInt(multi), pow(dx, 2 * d - 1)), poly_int(poly_mult(pm, pn), dx, Zero))

\* one pass of the loop over d: the increment of l2 for the derivatives pm, pn
L2Term(multi, dx, d, pm, pn) ==
    RMul(RMul(RInt(multi), pow(dx, 2 * d - 1)), poly_int(poly_mult(pm, pn), Zero, dx))

\* the loop over d = 1 .. k-1 on the local copies pm, pn
RECURSIVE l2_loop(_, _, _, _, _, _, _)
l2_loop(pm, pn, dx, k, d, multi, l2) ==
    IF d >= k THEN l2
    ELSE LET pm1 == poly_diff(pm, 1)
             pn1 == poly_diff(pn, 1)
         IN  l2_loop(pm1, pn1, dx, k, d + 1, multi,
                     RAdd(l2, L2Term(multi, dx, d, pm1, pn1)))

BetaEntry(pm, pn, dx, k, m, n) == l2_loop(pm, pn, dx, k, 1, Multi(m, n), Zero)

\* mutant: the loop over n starts at 0
FirstN_Zero(m) == 0

\* the n of the loop  for (n = m; n < k; n++)
FirstN(m) == m

(***************************************************************************)
(* Requests: the arguments of py_nonuniform_coeffs(k, xi, x, c, beta).     *)
(***************************************************************************)
\* NaN, the value the caller fills the output tensors with before the call,
\* and the value of an xlocal entry that was never assigned
NaN == <<0, 0>>

GridPatterns == {"unit", "double", "alt", "tri"}

\* width of cell n of a grid pattern
Width(g, n) ==
    CASE g = "unit" -> 1
      [] g = "double" -> 2
      [] g = "alt" -> 1 + (n % 2)
      [] g = "tri" -> 1 + (n % 3)

RECURSIVE Coord(_, _)
Coord(g, n) == IF n = 0 THEN 0 ELSE Coord(g, n - 1) + Width(g, n - 1)

\* the strictly increasing grid of nx boundaries of pattern g, translated by t
Grid(g, nx, t) == [n \in 0..(nx - 1) |-> Coord(g, n) + t]

\* evaluation-point sequences, in reference coordinates
XiChoices == {<<>>, <<Zero>>, <<RNeg(One), One>>}

Layouts == {"C", "F", "wide", "bcast"}

\* C-contiguous and Fortran-contiguous strides (in elements) of extents e
CStrides(e) == <<e[2] * e[3] * e[4], e[3] * e[4], e[4], 1>>
FStrides(e) == <<1, e[1], e[1] * e[2], e[1] * e[2] * e[3]>>

\* extents of the two output arrays of a request: those of the interface,
\* except for "wide", whose arrays have one more entry along one axis
CExt(lay, nc, nxi, k) == IF lay = "wide" THEN <<nc, nxi + 1, k, k>> ELSE <<nc, nxi, k, k>>
BExt(lay, nc, k) == IF lay = "wide" THEN <<nc, k, k, k + 1>> ELSE <<nc, k, k, k>>

\* strides of an output array: "bcast" is a view that repeats one cell's
\* block along the axis i (stride 0)
StridesOf(lay, e) ==
    CASE lay = "F" -> FStrides(e)
      [] lay = "bcast" -> <<0, e[3] * e[4], e[4], 1>>
      [] OTHER -> CStrides(e)

\* number of elements of the buffer an array of extents e and strides s spans
BufSize(e, s) ==
    IF \E a \in 1..4 : e[a] <= 0 THEN 0
    ELSE 1 + (e[1] - 1) * s[1] + (e[2] - 1) * s[2] + (e[3] - 1) * s[3] + (e[4] - 1) * s[4]

GoodNd == [x |-> 1, xi |-> 1, c |-> 4, beta |-> 4]
GoodTy == [x |-> "double", xi |-> "double", c |-> "double", beta |-> "double"]

MkRequest(k, g, nx, t, xis, lay, args_ok, nd, ty) ==
    [args_ok |-> args_ok, k |-> k, nd |-> nd, ty |-> ty,
     grid |-> g, t |-> t, x |-> Grid(g, nx, t),
     xi |-> [n \in 0..(Len(xis) - 1) |-> xis[n + 1]],
     c_ext |-> CExt(lay, nx - 1, Len(xis), k),
     c_str |-> StridesOf(lay, CExt(lay, nx - 1, Len(xis), k)),
     b_ext |-> BExt(lay, nx - 1, k),
     b_str |-> StridesOf(lay, BExt(lay, nx - 1, k))]

\* requests that pass the checks of py_nonuniform_coeffs
WellTyped ==
    {MkRequest(k, g, nx, tl[1], xis, tl[2], TRUE, GoodNd, GoodTy) :
        k \in 1..MaxK, g \in GridPatterns, nx \in 1..MaxNx, xis \in XiChoices,
        tl \in ({0} \X Layouts) \cup (((-MaxT)..MaxT) \X {"C"})}

\* requests with one argument of the wrong kind
IllTyped ==
    {MkRequest(1, "unit", 2, 0, <<Zero>>, "C", FALSE, GoodNd, GoodTy)}
    \cup {MkRequest(1, "unit", 2, 0, <<Zero>>, "C", TRUE, [GoodNd EXCEPT ![a] = 2], GoodTy) :
            a \in {"x", "xi", "c", "beta"}}
    \cup {MkRequest(1, "unit", 2, 0, <<Zero>>, "C", TRUE, GoodNd, [GoodTy EXCEPT ![a] = "float"]) :
            a \in {"x", "xi", "c", "beta"}}

Requests == WellTyped \cup IllTyped

(***************************************************************************)
(* State.                                                                  *)
(***************************************************************************)
VARIABLES
    req,       \* the arguments of the call
    pc,        \* position in py_nonuniform_coeffs
    result,    \* "pending", "NULL" (an exception is set) or "None"
    i,         \* the loop variable i of the running core function
    xlocal,    \* xlocal[0 .. 2k-1] of weno_recon_polys
    xl_cell,   \* the cell for which each entry of xlocal was assigned, or -1
    c_irj_x,   \* w.c_irj_x: the polynomial map
    c_ilrj,    \* w.c_ilrj: the buffer of the tensor c
    beta,      \* w.beta: the buffer of the tensor beta
    terms,     \* the scaled sum_m of every (r, j, l) of the cell built last
    xpa,       \* <<nmul, lost>> of every product prd_n built so far
    x_idx,     \* indices at which w.x was read so far
    xl_idx,    \* indices at which xlocal was accessed so far
    map_idx    \* indices at which w.c_irj_x was accessed so far

vars == <<req, pc, result, i, xlocal, xl_cell, c_irj_x, c_ilrj, beta, terms, xpa,
          x_idx, xl_idx, map_idx>>

K == req.k
NX == Cardinality(DOMAIN req.x)
NC == NX - 1
NXI == Cardinality(DOMAIN req.xi)

Init ==
    /\ req \in Requests
    /\ pc = "call"
    /\ result = "pending"
    /\ i = 0
    /\ xlocal = <<>>
    /\ xl_cell = <<>>
    /\ c_irj_x = <<>>
    /\ c_ilrj = [o \in 0..(BufSize(req.c_ext, req.c_str) - 1) |-> NaN]
    /\ beta = [o \in 0..(BufSize(req.b_ext, req.b_str) - 1) |-> NaN]
    /\ terms = [cell |-> -1, t |-> <<>>]
    /\ xpa = {}
    /\ x_idx = {}
    /\ xl_idx = {}
    /\ map_idx = {}

(***************************************************************************)
(* py_nonuniform_coeffs: the checks of the arguments.                      *)
(***************************************************************************)
ArgBad(a, nd) == req.nd[a] # nd \/ req.ty[a] # "double"

Raise ==
    /\ pc' = "raised"
    /\ result' = "NULL"
    /\ UNCHANGED <<req, i, xlocal, xl_cell, c_irj_x, c_ilrj, beta, terms, xpa,
                   x_idx, xl_idx, map_idx>>

\* PyArg_ParseTuple fails
ParseFail == pc = "call" /\ ~req.args_ok /\ Raise

RejectX == pc = "call" /\ req.args_ok /\ ArgBad("x", 1) /\ Raise

RejectXi ==
    /\ pc = "call" /\ req.args_ok
    /\ ~ArgBad("x", 1) /\ ArgBad("xi", 1)
    /\ Raise

RejectC ==
    /\ pc = "call" /\ req.args_ok
    /\ ~ArgBad("x", 1) /\ ~ArgBad("xi", 1) /\ ArgBad("c", 4)
    /\ Raise

RejectBeta ==
    /\ pc = "call" /\ req.args_ok
    /\ ~ArgBad("x", 1) /\ ~ArgBad("xi", 1) /\ ~ArgBad("c", 4) /\ ArgBad("beta", 4)
    /\ Raise

\* number of polynomials calloc allocates for the map
MapSize(k, nc) == nc * k * k

\* the struct w is filled, the map allocated (zeroed) and weno_recon_polys entered
Setup ==
    /\ pc = "call" /\ req.args_ok
    /\ ~ArgBad("x", 1) /\ ~ArgBad("xi", 1) /\ ~ArgBad("c", 4) /\ ~ArgBad("beta", 4)
    /\ pc' = "polys"
    /\ i' = FirstCell(K)
    /\ c_irj_x' = [z \in 0..(MapSize(K, NC) - 1) |-> poly_zero(0)]
    /\ xlocal' = [j \in 0..(XlocalSize(K) - 1) |-> NaN]
    /\ xl_cell' = [j \in 0..(XlocalSize(K) - 1) |-> -1]
    /\ UNCHANGED <<req, result, c_ilrj, beta, terms, xpa, x_idx, xl_idx, map_idx>>

(***************************************************************************)
(* weno_recon_polys: one pass of the loop over i.                          *)
(***************************************************************************)
\* an access outside an array or a read of an unassigned entry: the
\* behaviour is undefined, and no outcome of it is modelled
Fault == pc' = "fault"

ReconPolysCell ==
    /\ pc = "polys"
    /\ i < LastCellBound(K, NC)
    /\ LET k == K
           il == k - 1
           fill == 0..(XlocalFill(k) - 1)
           xr == {i - il + j : j \in fill} \cup {i}
           xlr == {il - r + n : r \in 0..(k - 1), n \in 0..k}
           mw == {Irj(k, i, r, j) : r \in 0..(k - 1), j \in 0..(k - 1)}
           cell == [j \in DOMAIN xlocal |-> IF j \in fill THEN i ELSE xl_cell[j]]
           safe == /\ xr \subseteq DOMAIN req.x
                   /\ fill \cup xlr \subseteq DOMAIN xlocal
                   /\ \A j \in xlr : cell[j] # -1
                   /\ mw \subseteq DOMAIN c_irj_x
           xl == [j \in DOMAIN xlocal |->
                    IF j \in fill THEN XlocalEntry(req.x, i, il, j) ELSE xlocal[j]]
           rjl == {q \in (0..(k - 1)) \X (0..(k - 1)) \X (1..k) : q[3] > q[2]}
       IN  /\ x_idx' = x_idx \cup xr
           /\ xl_idx' = xl_idx \cup fill \cup xlr
           /\ map_idx' = map_idx \cup mw
           /\ IF safe
              THEN /\ xlocal' = xl
                   /\ xl_cell' = cell
                   /\ c_irj_x' = [z \in DOMAIN c_irj_x |->
                        IF z \in mw
                        THEN c_irj_poly(xl, k, ((z - i * k * k) \div k), ((z - i * k * k) % k))
                        ELSE c_irj_x[z]]
                   /\ terms' = [cell |-> i, t |-> [q \in rjl |-> ScaledSumM(xl, k, q[1], q[3])]]
                   /\ xpa' = xpa \cup
                        {<<prd_n(xl, k, q[1], q[3], q[4]).nmul, prd_n(xl, k, q[1], q[3], q[4]).lost>> :
                            q \in {u \in (0..(k - 1)) \X (0..(k - 1)) \X (1..k) \X (0..k) :
                                      u[3] > u[2] /\ u[4] # u[3]}}
                   /\ i' = i + 1
                   /\ pc' = pc
              ELSE /\ Fault
                   /\ UNCHANGED <<i, xlocal, xl_cell, c_irj_x, terms, xpa>>
    /\ UNCHANGED <<req, result, c_ilrj, beta>>

\* the loop ends; weno_recon_coefs is entered
ReconPolysReturn ==
    /\ pc = "polys"
    /\ ~(i < LastCellBound(K, NC))
    /\ pc' = "coefs"
    /\ i' = FirstCell(K)
    /\ UNCHANGED <<req, result, xlocal, xl_cell, c_irj_x, c_ilrj, beta, terms, xpa,
                   x_idx, xl_idx, map_idx>>

(***************************************************************************)
(* weno_recon_coefs: one pass of the loop over i.                          *)
(***************************************************************************)
ReconCoefsCell ==
    /\ pc = "coefs"
    /\ i < LastCellBound(K, NC)
    /\ LET k == K
           nxi == NXI
           rjn == (0..(k - 1)) \X (0..(k - 1)) \X (0..(nxi - 1))
           xr == IF rjn = {} THEN {} ELSE {i + 1, i}
           mr == {Irj(k, i, q[1], q[2]) : q \in rjn}
           Off(q) == Offset(req.c_str, i, q[3], q[1], q[2])
           \* position of the write q in the order of the loops: of the writes that
           \* hit one offset, the last one stays
           Rank(q) == (q[1] * k + q[2]) * nxi + q[3]
           safe == /\ xr \subseteq DOMAIN req.x
                   /\ mr \subseteq DOMAIN c_irj_x
                   /\ \A q \in rjn : Off(q) \in DOMAIN c_ilrj
           Val(q) == poly_eval(c_irj_x[Irj(k, i, q[1], q[2])],
                               XiPhys(req.xi[q[3]], RInt(req.x[i + 1] - req.x[i])))
       IN  /\ x_idx' = x_idx \cup xr
           /\ map_idx' = map_idx \cup mr
           /\ IF safe
              THEN /\ c_ilrj' = [o \in DOMAIN c_ilrj |->
                        LET ws == {q \in rjn : Off(q) = o}
                        IN  IF ws = {} THEN c_ilrj[o]
                            ELSE Val(CHOOSE q \in ws : \A q2 \in ws : Rank(q2) <= Rank(q))]
                   /\ i' = i + 1
                   /\ pc' = pc
              ELSE /\ Fault
                   /\ UNCHANGED <<i, c_ilrj>>
    /\ UNCHANGED <<req, result, xlocal, xl_cell, c_irj_x, beta, terms, xpa, xl_idx>>

\* the loop ends; weno_smoothness_coefs is entered
ReconCoefsReturn ==
    /\ pc = "coefs"
    /\ ~(i < LastCellBound(K, NC))
    /\ pc' = "smooth"
    /\ i' = FirstCell(K)
    /\ UNCHANGED <<req, result, xlocal, xl_cell, c_irj_x, c_ilrj, beta, terms, xpa,
                   x_idx, xl_idx, map_idx>>

(***************************************************************************)
(* weno_smoothness_coefs: one pass of the loop over i.                     *)
(***************************************************************************)
SmoothnessCell ==
    /\ pc = "smooth"
    /\ i < LastCellBound(K, NC)
    /\ LET k == K
           rmn == {q \in (0..(k - 1)) \X (0..(k - 1)) \X (0..(k - 1)) : q[3] >= FirstN(q[2])}
           xr == {i + 1, i}
           mr == {Irj(k, i, q[1], q[2]) : q \in rmn} \cup {Irj(k, i, q[1], q[3]) : q \in rmn}
           Off(q) == Offset(req.b_str, i, q[1], q[2], q[3])
           Rank(q) == (q[1] * k + q[2]) * k + q[3]
           safe == /\ xr \subseteq DOMAIN req.x
                   /\ mr \subseteq DOMAIN c_irj_x
                   /\ \A q \in rmn : Off(q) \in DOMAIN beta
           Val(q) == BetaEntry(c_irj_x[Irj(k, i, q[1], q[2])], c_irj_x[Irj(k, i, q[1], q[3])],
                               RInt(req.x[i + 1] - req.x[i]), k, q[2], q[3])
       IN  /\ x_idx' = x_idx \cup xr
           /\ map_idx' = map_idx \cup mr
           /\ IF safe
              THEN /\ beta' = [o \in DOMAIN beta |->
                        LET ws == {q \in rmn : Off(q) = o}
                        IN  IF ws = {} THEN beta[o]
                            ELSE Val(CHOOSE q \in ws : \A q2 \in ws : Rank(q2) <= Rank(q))]
                   /\ i' = i + 1
                   /\ pc' = pc
              ELSE /\ Fault
                   /\ UNCHANGED <<i, beta>>
    /\ UNCHANGED <<req, result, xlocal, xl_cell, c_irj_x, c_ilrj, terms, xpa, xl_idx>>

\* the loop ends; the map is freed and None is returned
SmoothnessReturn ==
    /\ pc = "smooth"
    /\ ~(i < LastCellBound(K, NC))
    /\ pc' = "done"
    /\ result' = "None"
    /\ c_irj_x' = <<>>
    /\ UNCHANGED <<req, i, xlocal, xl_cell, c_ilrj, beta, terms, xpa,
                   x_idx, xl_idx, map_idx>>

Next ==
    \/ ParseFail
    \/ RejectX
    \/ RejectXi
    \/ RejectC
    \/ RejectBeta
    \/ Setup
    \/ ReconPolysCell
    \/ ReconPolysReturn
    \/ ReconCoefsCell
    \/ ReconCoefsReturn
    \/ SmoothnessCell
    \/ SmoothnessReturn

Spec == Init /\ [][Next]_vars

(***************************************************************************)
(* Reading the output tensors and the inputs of the properties.            *)
(***************************************************************************)
\* the entry c[ix, l, r, j] and the entry beta[ix, r, m, n]
CAt(ix, l, r, j) == c_ilrj[Offset(req.c_str, ix, l, r, j)]
BAt(ix, r, m, n) == beta[Offset(req.b_str, ix, r, m, n)]

\* index tuples of the two tensors of the interface
CIndex == (0..(NC - 1)) \X (0..(NXI - 1)) \X (0..(K - 1)) \X (0..(K - 1))
BIndex == (0..(NC - 1)) \X (0..(K - 1)) \X (0..(K - 1)) \X (0..(K - 1))

\* the strides map distinct index tuples to distinct offsets
Injective(str, index) ==
    Cardinality({Offset(str, q[1], q[2], q[3], q[4]) : q \in index}) = Cardinality(index)

StridesInjective == Injective(req.c_str, CIndex) /\ Injective(req.b_str, BIndex)

\* the cells the core processes
IsValidCell(ix) == ix >= K - 1 /\ ix < NC - (K - 1)
ValidCells == {ix \in 0..(NC - 1) : IsValidCell(ix)}

(***************************************************************************)
(* C5. Concrete scenario k = 2, x = [0,1,2,3,4], xi = [0].                 *)
(***************************************************************************)
Scenario ==
    /\ pc = "done"
    /\ K = 2
    /\ req.x = Grid("unit", 5, 0)
    /\ req.xi = [n \in {0} |-> Zero]
    /\ StridesInjective

\* C5 as claimed: after the call of the scenario, the values c[1, 0, r, j] are
\* {3/2, -1/2} for one shift r and {1/2, 3/2} for the other shift.
C5_AsClaimed ==
    Scenario =>
        \E r1 \in 0..1 :
            /\ {CAt(1, 0, r1, 0), CAt(1, 0, r1, 1)} = {<<3, 2>>, <<-1, 2>>}
            /\ {CAt(1, 0, 1 - r1, 0), CAt(1, 0, 1 - r1, 1)} = {<<1, 2>>, <<3, 2>>}

\* C5 amended: after the call of the scenario, xi = 0 being the midpoint of
\* the cell, c[1, 0, 0, .] = (1, 0) for the shift r = 0 and c[1, 0, 1, .] = (0, 1)
\* for the shift r = 1.
C5_Midpoint ==
    Scenario =>
        /\ CAt(1, 0, 0, 0) = One /\ CAt(1, 0, 0, 1) = Zero
        /\ CAt(1, 0, 1, 0) = Zero /\ CAt(1, 0, 1, 1) = One

C5_Witness == Scenario /\ CAt(1, 0, 0, 0) # NaN

(***************************************************************************)
(* C1. Exactness of the reconstruction.                                    *)
(***************************************************************************)
\* average of f(y) = y^q over the cell [a, b]
CellAverage(q, a, b) ==
    RMul(RSub(pow(RInt(b), q + 1), pow(RInt(a), q + 1)), <<1, (q + 1) * (b - a)>>)

\* sum over j = j .. k-1 of p[ix,r,j](off) * weight * average of y^q over cell
\* ix-r+j, where weight is the width of that cell if byWidth and 1 otherwise
RECURSIVE ReconSum(_, _, _, _, _, _)
ReconSum(ix, r, off, q, j, byWidth) ==
    IF j >= K THEN Zero
    ELSE LET a == req.x[ix - r + j]
             b == req.x[ix - r + j + 1]
             weight == IF byWidth THEN RInt(b - a) ELSE One
         IN  RAdd(RMul(RMul(poly_eval(c_irj_x[Irj(K, ix, r, j)], off), weight),
                       CellAverage(q, a, b)),
                  ReconSum(ix, r, off, q, j + 1, byWidth))

\* sample points of cell ix, as offsets from its left edge: both edges, the
\* midpoint and the point at one third of the width
SampleOffsets(ix) ==
    LET dx == req.x[ix + 1] - req.x[ix] IN {Zero, <<dx, 3>>, <<dx, 2>>, RInt(dx)}

\* C1: once the builder has run, for every valid cell i, shift r, point x of
\* cell i and monomial f(y) = y^q with q < k, the sum over j of
\* p[i,r,j](x - x[i]) times the average of f over cell i-r+j equals f(x).
C1_Exactness ==
    pc = "coefs" =>
        \A ix \in ValidCells : \A r \in 0..(K - 1) : \A q \in 0..(K - 1) :
            \A off \in SampleOffsets(ix) :
                ReconSum(ix, r, off, q, 0, FALSE) = pow(RAdd(RInt(req.x[ix]), off), q)

\* What the polynomials of the code reproduce instead: the same sum with the
\* term of each cell weighted by the width of that cell.
C1_WidthWeighted ==
    pc = "coefs" =>
        \A ix \in ValidCells : \A r \in 0..(K - 1) : \A q \in 0..(K - 1) :
            \A off \in SampleOffsets(ix) :
                ReconSum(ix, r, off, q, 0, TRUE) = pow(RAdd(RInt(req.x[ix]), off), q)

\* C1 on the grids whose cells all have width 1
C1_UnitGrid == req.grid = "unit" => C1_Exactness

(***************************************************************************)
(* C2. Frame of the outputs.                                               *)
(***************************************************************************)
\* C2: when the strides are injective, in every state of the call every entry
\* c[i,l,r,j] and beta[i,r,m,n] with i outside [k-1, nc-(k-1)), and every
\* entry beta[i,r,m,n] with n < m, holds its pre-call value NaN.
C2_Frame ==
    StridesInjective =>
        /\ \A q \in CIndex : ~IsValidCell(q[1]) => CAt(q[1], q[2], q[3], q[4]) = NaN
        /\ \A q \in BIndex :
            (~IsValidCell(q[1]) \/ q[4] < q[3]) => BAt(q[1], q[2], q[3], q[4]) = NaN

\* a finished call that wrote c and beta for a valid cell of a grid that also
\* has boundary cells and, k being at least 2, entries with n < m
C2_Witness ==
    /\ pc = "done" /\ StridesInjective /\ K >= 2 /\ NXI > 0
    /\ \E ix \in ValidCells : CAt(ix, 0, 0, 0) # NaN /\ BAt(ix, 0, 0, 1) # NaN

(***************************************************************************)
(* C3. Validation of the sizes.                                            *)
(***************************************************************************)
SizesFit ==
    /\ NX >= 2 * K
    /\ req.c_ext = <<NC, NXI, K, K>>
    /\ req.b_ext = <<NC, K, K, K>>

\* C3: a request whose sizes do not fit together never reaches the core: it
\* is still at the call or has been rejected with an error, and no entry of
\* the outputs has been written.
C3_SizesRejected ==
    ~SizesFit =>
        /\ pc \in {"call", "raised"}
        /\ pc = "raised" => result = "NULL"
        /\ \A o \in DOMAIN c_ilrj : c_ilrj[o] = NaN
        /\ \A o \in DOMAIN beta : beta[o] = NaN

(***************************************************************************)
(* C4. The diagonal of beta is not negative.                               *)
(***************************************************************************)
\* C4: every value written to beta[i,r,m,m] for a valid cell i is >= 0, and
\* is 0 when k = 1.
C4_Diagonal ==
    \A ix \in ValidCells : \A r \in 0..(K - 1) : \A m \in 0..(K - 1) :
        BAt(ix, r, m, m) # NaN =>
            /\ RGeq0(BAt(ix, r, m, m))
            /\ K = 1 => BAt(ix, r, m, m) = Zero

\* a finished call with k >= 2 that wrote a positive diagonal entry
C4_Witness ==
    /\ pc = "done" /\ K >= 2
    /\ \E ix \in ValidCells : \E r \in 0..(K - 1) : \E m \in 0..(K - 1) :
        BAt(ix, r, m, m) # NaN /\ BAt(ix, r, m, m)[1] > 0

(***************************************************************************)
(* C6. Invariance under a translation of the grid.                         *)
(***************************************************************************)
\* what the three core functions compute for one entry from a grid x
PolyOf(x, k, ix, r, j) ==
    c_irj_poly([n \in 0..(XlocalFill(k) - 1) |-> XlocalEntry(x, ix, k - 1, n)], k, r, j)

CoefOf(x, k, ix, l, r, j) ==
    poly_eval(PolyOf(x, k, ix, r, j), XiPhys(req.xi[l], RInt(x[ix + 1] - x[ix])))

BetaOf(x, k, ix, r, m, n) ==
    BetaEntry(PolyOf(x, k, ix, r, m), PolyOf(x, k, ix, r, n),
              RInt(x[ix + 1] - x[ix]), k, m, n)

\* the grid of the request before its translation by req.t
Untranslated == Grid(req.grid, NX, 0)

\* C6: the values a finished call has written to c and beta for the grid
\* x + t are those the computation yields for the grid x.
C6_Translation ==
    (pc = "done" /\ StridesInjective) =>
        /\ \A q \in CIndex : IsValidCell(q[1]) =>
            CAt(q[1], q[2], q[3], q[4]) = CoefOf(Untranslated, K, q[1], q[2], q[3], q[4])
        /\ \A q \in BIndex : (IsValidCell(q[1]) /\ q[4] >= q[3]) =>
            BAt(q[1], q[2], q[3], q[4]) = BetaOf(Untranslated, K, q[1], q[2], q[3], q[4])

\* a finished call on a translated non-uniform grid with entries written
C6_Witness ==
    /\ pc = "done" /\ StridesInjective /\ req.t # 0 /\ req.grid = "tri"
    /\ K >= 2 /\ NXI > 0 /\ ValidCells # {}
    /\ \A ix \in ValidCells : CAt(ix, 0, 0, 0) # NaN /\ BAt(ix, 0, 0, 1) # NaN

(***************************************************************************)
(* C7. The term of l in the builder.                                       *)
(***************************************************************************)
\* node[m] = xlocal[k-1-r+m] of cell ix: the boundary x[ix-r+m], from x[ix]
NodeOf(ix, r, m) == RInt(req.x[ix - r + m] - req.x[ix])

\* the binomial x - a as a polynomial of degree 1
Binomial(a) == [n |-> 1, p |-> [z \in 0..1 |-> IF z = 0 THEN RNeg(a) ELSE One]]

\* product over m = m .. k, m # l, of the binomials (x - node[m]): degree k
RECURSIVE Numerator(_, _, _, _)
Numerator(ix, r, l, m) ==
    IF m > K THEN poly_one(0)
    ELSE IF m = l THEN Numerator(ix, r, l, m + 1)
    ELSE poly_mult(Binomial(NodeOf(ix, r, m)), Numerator(ix, r, l, m + 1))

\* product over m = m .. k, m # l, of (node[l] - node[m])
RECURSIVE Denominator(_, _, _, _)
Denominator(ix, r, l, m) ==
    IF m > K THEN One
    ELSE IF m = l THEN Denominator(ix, r, l, m + 1)
    ELSE RMul(RSub(NodeOf(ix, r, l), NodeOf(ix, r, m)), Denominator(ix, r, l, m + 1))

\* a polynomial as the same polynomial of degree n (n >= its degree)
Widen(p1, n) == [n |-> n, p |-> [z \in 0..n |-> IF z <= p1.n THEN p1.p[z] ELSE Zero]]

\* C7 as claimed: the term accumulated for (i, r, j, l) is the product over
\* m # l of the binomials (x - node[m]), scaled by the reciprocal of the
\* product over m # l of (node[l] - node[m]).
C7_AsClaimed ==
    \A q \in DOMAIN terms.t :
        Widen(terms.t[q], K) =
            inplace_poly_scale(Numerator(terms.cell, q[1], q[3], 0),
                               RInv(Denominator(terms.cell, q[1], q[3], 0)))

\* C7 amended: the term accumulated for (i, r, j, l) is the derivative of that
\* product, that is the sum over m # l of the products over n outside {l, m}
\* of (x - node[n]), scaled by the reciprocal of the product over m # l of
\* (node[l] - node[m]).
C7_Derivative ==
    \A q \in DOMAIN terms.t :
        terms.t[q] =
            inplace_poly_scale(poly_diff(Numerator(terms.cell, q[1], q[3], 0), 1),
                               RInv(Denominator(terms.cell, q[1], q[3], 0)))

\* the builder has built a cell of a non-uniform grid for k = 3
C7_Witness ==
    /\ pc = "polys" /\ K = 3 /\ req.grid = "tri" /\ terms.cell = i - 1
    /\ <<1, 0, 2>> \in DOMAIN terms.t

(***************************************************************************)
(* C8. Assembly of the smoothness coefficients.                            *)
(***************************************************************************)
\* z (z-1) ... (z-d+1)
RECURSIVE Falling(_, _)
Falling(z, d) == IF d = 0 THEN 1 ELSE z * Falling(z - 1, d - 1)

\* coefficient of x^z of the d-th derivative of p1
DerivCoef(p1, d, z) == IF z + d > p1.n THEN Zero ELSE RMul(RInt(Falling(z + d, d)), p1.p[z + d])

\* integral over [0, dx] of (d-th derivative of p1) * (d-th derivative of p2),
\* term by term: sum over a >= a0, b of p1d[a] p2d[b] dx^(a+b+1) / (a+b+1)
RECURSIVE DerivProduct(_, _, _, _, _, _)
DerivProduct(p1, p2, d, dx, a, b) ==
    IF a > p1.n THEN Zero
    ELSE IF b > p2.n THEN DerivProduct(p1, p2, d, dx, a + 1, 0)
    ELSE RAdd(RMul(RMul(DerivCoef(p1, d, a), DerivCoef(p2, d, b)),
                   RMul(pow(dx, a + b + 1), <<1, a + b + 1>>)),
              DerivProduct(p1, p2, d, dx, a, b + 1))

\* sum over d = d .. k-1 of dx^(2d-1) * integral of the product of the d-th derivatives
RECURSIVE SmoothnessSum(_, _, _, _, _)
SmoothnessSum(p1, p2, dx, k, d) ==
    IF d > k - 1 THEN Zero
    ELSE RAdd(RMul(pow(dx, 2 * d - 1), DerivProduct(p1, p2, d, dx, 0, 0)),
              SmoothnessSum(p1, p2, dx, k, d + 1))

\* a pass of the loop over i of weno_smoothness_coefs
SmoothnessPass == pc = "smooth" /\ pc' = "smooth" /\ i' = i + 1

\* C8: a pass of the assembler for cell i leaves the polynomial map unchanged
\* and stores at beta[i,r,m,n], for every r and m <= n, multiplicity times the
\* sum over d = 1 .. k-1 of dx^(2d-1) times the integral over [0, dx] of the
\* product of the d-th derivatives of p[i,r,m] and p[i,r,n], with
\* multiplicity 1 if m = n and 2 otherwise.
C8_Assembly ==
    [][SmoothnessPass =>
        /\ c_irj_x' = c_irj_x
        /\ \A r \in 0..(K - 1) : \A m \in 0..(K - 1) : \A n \in m..(K - 1) :
            beta'[Offset(req.b_str, i, r, m, n)] =
                RMul(RInt(IF m = n THEN 1 ELSE 2),
                     SmoothnessSum(c_irj_x[Irj(K, i, r, m)], c_irj_x[Irj(K, i, r, n)],
                                   RInt(req.x[i + 1] - req.x[i]), K, 1))]_vars

\* the assembler has passed a cell of a non-uniform grid with k = 3 and
\* stored a nonzero off-diagonal entry
C8_Witness ==
    /\ pc = "smooth" /\ K = 3 /\ req.grid = "tri" /\ i = FirstCell(K) + 1
    /\ BAt(i - 1, 0, 0, 1) \notin {NaN, Zero}

(***************************************************************************)
(* C9. No truncation in the multiplication by a binomial.                  *)
(***************************************************************************)
\* C9: every product prd_n built so far received exactly k-1 binomial
\* factors, and at none of these multiplications was the coefficient of
\* x^(k-1) nonzero before the multiplication.
C9_NoTruncation == \A e \in xpa : e[1] = K - 1 /\ e[2] = FALSE

\* the builder has built products of two binomials (k = 3)
C9_Witness == pc = "coefs" /\ K = 3 /\ <<2, FALSE>> \in xpa

(***************************************************************************)
(* C10. Index safety.                                                      *)
(***************************************************************************)
\* C10: no access of the core is out of bounds or reads an unassigned entry:
\* w.x is read at indices in [0, nx), xlocal is accessed at indices in
\* [0, 2k) that were assigned for the cell built last, and the polynomial
\* map is accessed at indices in [0, nc*k*k).
C10_IndexSafety ==
    /\ pc # "fault"
    /\ x_idx \subseteq 0..(NX - 1)
    /\ xl_idx \subseteq 0..(2 * K - 1)
    /\ \A j \in xl_idx : xl_cell[j] = terms.cell
    /\ map_idx \subseteq 0..(NC * K * K - 1)

\* a finished call with k >= 2 whose loops were not empty
C10_Witness ==
    /\ pc = "done" /\ K >= 2 /\ NXI > 0
    /\ 0 \in x_idx /\ (NX - 1) \in x_idx /\ (2 * K - 1) \in xl_idx /\ map_idx # {}

====
